---- MODULE Spec2Model ----
(***************************************************************************)
(* ESP32 temperature-station logger (src/src/main.cpp).                    *)
(*                                                                         *)
(* One Arduino loop() iteration is three consecutive steps, tracked by pc: *)
(*   "poll"   - the serial command switch            (lines 86-162)        *)
(*   "step"   - the delayed one-shot step check      (lines 165-167)       *)
(*   "sample" - the periodic sampling block          (lines 170-190)       *)
(* millis() is read at line 94, line 165 and line 170; the clock (now) may *)
(* advance between any two of these reads (action Tick).                   *)
(*                                                                         *)
(* Voltages are fixed-point numbers in units of 0.1 mV, the resolution of  *)
(* the "%.4f" fields of a log line: 3.3 V = 33000, 0.1 V = 1000.           *)
(* Every SPIFFS.open may fail: the outcome is an input of the action.      *)
(***************************************************************************)
EXTENDS Integers, Sequences, FiniteSets, TLC

\* ---------------------------------------------------------------- constants
SAMPLING_INTERVAL_MS == 500
INITIAL_WAIT_MS == 3000
SETPOINT_VOLTAGE == 15000
MAX_FILE_SIZE == 1000000
V_MAX == 33000
V_STEP == 1000
DAC_MAX == 255
ADC_MAX == 4095

\* ------------------------------------------------------------------- bounds
\* width of the millisecond counter (unsigned long), in bits
TimeBits == 13
\* the clock is followed for this many milliseconds
MaxTime == 3000
\* number of serial characters the operator sends
MaxCmds == 2
\* number of SPIFFS.open calls that fail
MaxFaults == 1
\* number of record lines appended to the file since it was last cleared
MaxRecords == 6

ULONG_MOD == 2 ^ TimeBits
\* clock advances between two reads of millis()
Deltas == {500}
\* raw ADC readings drawn by analogRead
AdcValues == {ADC_MAX}

VARIABLES
    now,             \* millis()
    pc,              \* position inside loop()
    cmd,             \* the character read in this iteration, "none" if none
    lastSampleTime, stepStartTime, sampleCount,
    loggingEnabled, stepApplied, currentSetpoint,
    dacValue,        \* last value given to dacWrite
    file,            \* /data.csv: the sequence of its lines
    io,              \* the SPIFFS.open calls of the last command or sampling
                     \* block, in order: <<mode, succeeded>>
    prev,            \* history: the last character read in an earlier iteration
    nCmds,           \* history: number of characters read so far
    nFaults,         \* history: number of failed SPIFFS.open calls so far
    goSeen,          \* history: a go was read since boot or the last reset
    stepFires,       \* history: applyStep calls since boot or the last reset
    elapsed,         \* history: milliseconds since the initial state, not wrapped
    trueStart,       \* history: value of elapsed when stepStartTime was set
    trueSample       \* history: value of elapsed when lastSampleTime was set

vars == <<now, pc, cmd, lastSampleTime, stepStartTime, sampleCount,
          loggingEnabled, stepApplied, currentSetpoint, dacValue, file,
          io, prev, nCmds, nFaults, goSeen, stepFires,
          elapsed, trueStart, trueSample>>

\* the variables of the program's run state and the log file
runState == <<loggingEnabled, stepApplied, stepStartTime, sampleCount,
              currentSetpoint, file>>

\* ------------------------------------------------------------ the log file
Header == [kind |-> "hdr"]
\* a block of record lines left by earlier sessions, bytes long
OldData(bytes) == [kind |-> "old", bytes |-> bytes]
LogRecord(timestamp, setpoint, sensorVoltage) ==
    [kind |-> "rec", t |-> timestamp, sp |-> setpoint, sv |-> sensorVoltage]

HeaderOnly == <<Header>>

\* number of decimal digits of "%lu"
RECURSIVE Digits(_)
Digits(n) == IF n < 10 THEN 1 ELSE 1 + Digits(n \div 10)

\* "timestamp_ms,setpoint_v,sensor_v" + CR LF
HeaderBytes == 34
\* the longest "%lu" of a 32-bit unsigned long: 4294967295
ULONG_DIGITS == 10

\* "%lu,%.4f,%.4f\n": voltages are below 10 V, so "%.4f" is 6 characters
RecordBytes(r) == Digits(r.t) + 1 + 6 + 1 + 6 + 1

LineBytes(l) ==
    CASE l.kind = "hdr" -> HeaderBytes
      [] l.kind = "old" -> l.bytes
      [] l.kind = "rec" -> RecordBytes(l)

RECURSIVE FileSize(_)
FileSize(f) == IF f = <<>> THEN 0 ELSE LineBytes(Head(f)) + FileSize(Tail(f))

Records(f) == SelectSeq(f, LAMBDA l : l.kind = "rec")

\* ------------------------------------------------------------- arithmetic
\* USub with a fault seeded: the difference is taken in signed arithmetic
USub_Signed(a, b) == a - b

\* unsigned long subtraction
USub(a, b) == (a - b) % ULONG_MOD

adcToVoltage(adcValue) == (adcValue * V_MAX) \div ADC_MAX

Clamp(voltage) ==
    IF voltage < 0 THEN 0 ELSE IF voltage > V_MAX THEN V_MAX ELSE voltage

DacOf(voltage) == (voltage * DAC_MAX) \div V_MAX

\* setSetpointVoltage with a fault seeded: dacWrite is not called
setSetpointVoltage_NoDacWrite(voltage) ==
    /\ currentSetpoint' = Clamp(voltage)
    /\ UNCHANGED dacValue

setSetpointVoltage(voltage) ==
    /\ currentSetpoint' = Clamp(voltage)
    /\ dacValue' = DacOf(Clamp(voltage))

\* applyStep with a fault seeded: the flag is set but the output is not driven
applyStep_NoOutput ==
    /\ stepApplied' = TRUE
    /\ UNCHANGED <<currentSetpoint, dacValue>>

applyStep ==
    /\ setSetpointVoltage(SETPOINT_VOLTAGE)
    /\ stepApplied' = TRUE

\* SPIFFS.open(DATA_FILE, mode) and whether it returned an open file
Open(mode, ok) == <<mode, ok>>

\* the outcomes SPIFFS.open can still have
OpenResults == IF nFaults < MaxFaults THEN BOOLEAN ELSE {TRUE}

\* the failed opens among the calls of sequence calls are counted
Failures(calls) == Cardinality({i \in DOMAIN calls : ~calls[i][2]})

\* the SPIFFS.open calls made by a command or by the sampling block
Opens(calls) ==
    /\ nFaults + Failures(calls) <= MaxFaults
    /\ io' = calls
    /\ nFaults' = nFaults + Failures(calls)

\* clearDataFile with a fault seeded: sampleCount is zeroed before the open
clearDataFile_CountAlways(ok) ==
    /\ Opens(<<Open("w", ok)>>)
    /\ sampleCount' = 0
    /\ file' = IF ok THEN HeaderOnly ELSE file

\* clearDataFile with a fault seeded: the file is opened FILE_APPEND, not FILE_WRITE
clearDataFile_Appends(ok) ==
    /\ Opens(<<Open("w", ok)>>)
    /\ IF ok
       THEN file' = Append(file, Header) /\ sampleCount' = 0
       ELSE UNCHANGED <<file, sampleCount>>

\* clearDataFile, ok: the FILE_WRITE open succeeded
clearDataFile(ok) ==
    /\ Opens(<<Open("w", ok)>>)
    /\ IF ok
       THEN file' = HeaderOnly /\ sampleCount' = 0
       ELSE UNCHANGED <<file, sampleCount>>

\* logData with a fault seeded: at capacity the write is skipped but logging stays on
logData_StaysEnabled(timestamp, setpoint, sensorVoltage, okR, okA) ==
    /\ IF okR /\ FileSize(file) >= MAX_FILE_SIZE
       THEN /\ Opens(<<Open("r", okR)>>)
            /\ UNCHANGED <<file, loggingEnabled>>
       ELSE /\ Opens(<<Open("r", okR), Open("a", okA)>>)
            /\ file' = IF okA
                       THEN Append(file, LogRecord(timestamp, setpoint, sensorVoltage))
                       ELSE file
            /\ UNCHANGED loggingEnabled

\* logData, okR / okA: the FILE_READ / FILE_APPEND open succeeded.
\* With a failed FILE_READ open the size check is skipped.
logData(timestamp, setpoint, sensorVoltage, okR, okA) ==
    /\ IF okR /\ FileSize(file) >= MAX_FILE_SIZE
       THEN /\ Opens(<<Open("r", okR)>>)
            /\ loggingEnabled' = FALSE
            /\ UNCHANGED file
       ELSE /\ Opens(<<Open("r", okR), Open("a", okA)>>)
            /\ file' = IF okA
                       THEN Append(file, LogRecord(timestamp, setpoint, sensorVoltage))
                       ELSE file
            /\ UNCHANGED loggingEnabled

\* ------------------------------------------------------------------- Init
\* setup(): the globals' initializers, setSetpointVoltage(0.0), and the data
\* file as initSPIFFS finds or creates it.
InitialFiles ==
    { HeaderOnly,
      <<Header, OldData(MAX_FILE_SIZE - 1 - HeaderBytes)>> }

Init ==
    /\ now = 0
    /\ pc = "poll"
    /\ cmd = "none"
    /\ lastSampleTime = 0
    /\ stepStartTime = 0
    /\ sampleCount = 0
    /\ loggingEnabled = FALSE
    /\ stepApplied = FALSE
    /\ currentSetpoint = 0
    /\ dacValue = 0
    /\ file \in InitialFiles
    /\ io = <<>>
    /\ prev = "none"
    /\ nCmds = 0
    /\ nFaults = 0
    /\ goSeen = FALSE
    /\ stepFires = 0
    /\ elapsed = 0
    /\ trueStart = 0
    /\ trueSample = 0

\* ----------------------------------------------------------- the commands
Remember == prev' = IF cmd # "none" THEN cmd ELSE prev

\* Serial.read() returned c: what every case of the switch has in common
Read(c) ==
    /\ pc = "poll"
    /\ nCmds < MaxCmds
    /\ pc' = "step"
    /\ cmd' = c
    /\ Remember
    /\ nCmds' = nCmds + 1
    /\ UNCHANGED <<now, elapsed, lastSampleTime, trueSample>>

\* Serial.available() is 0
NoCommand ==
    /\ pc = "poll"
    /\ pc' = "step"
    /\ cmd' = "none"
    /\ Remember
    /\ Opens(<<>>)
    /\ UNCHANGED <<now, elapsed, lastSampleTime, trueSample, stepStartTime,
                   trueStart, sampleCount, loggingEnabled, stepApplied,
                   currentSetpoint, dacValue, file, nCmds, nFaults, goSeen,
                   stepFires>>

\* Go with a fault seeded: the start time is not recorded
Go_KeepsStartTime ==
    /\ Read("g")
    /\ goSeen' = TRUE
    /\ IF ~stepApplied
       THEN /\ \E ok \in OpenResults : clearDataFile(ok)
            /\ loggingEnabled' = TRUE
       ELSE /\ Opens(<<>>)
            /\ UNCHANGED <<file, sampleCount, loggingEnabled>>
    /\ UNCHANGED <<stepStartTime, trueStart, stepApplied, currentSetpoint, dacValue,
                   stepFires>>

\* Go with a fault seeded: the stepApplied guard is missing
Go_Unguarded ==
    /\ Read("g")
    /\ goSeen' = TRUE
    /\ \E ok \in OpenResults : clearDataFile(ok)
    /\ loggingEnabled' = TRUE
    /\ stepStartTime' = now /\ trueStart' = elapsed
    /\ UNCHANGED <<stepApplied, currentSetpoint, dacValue, stepFires>>

\* case 'g': GO
Go ==
    /\ Read("g")
    /\ goSeen' = TRUE
    /\ IF ~stepApplied
       THEN /\ \E ok \in OpenResults : clearDataFile(ok)
            /\ loggingEnabled' = TRUE
            /\ stepStartTime' = now /\ trueStart' = elapsed
       ELSE /\ Opens(<<>>)
            /\ UNCHANGED <<file, sampleCount, loggingEnabled, stepStartTime, trueStart>>
    /\ UNCHANGED <<stepApplied, currentSetpoint, dacValue, stepFires>>

\* Reset with a fault seeded: sampleCount is not zeroed
Reset_KeepsCount ==
    /\ Read("r")
    /\ setSetpointVoltage(0)
    /\ stepApplied' = FALSE
    /\ loggingEnabled' = FALSE
    /\ Opens(<<>>)
    /\ goSeen' = FALSE
    /\ stepFires' = 0
    /\ UNCHANGED <<stepStartTime, trueStart, file, sampleCount>>

\* case 'r': RESET
Reset ==
    /\ Read("r")
    /\ setSetpointVoltage(0)
    /\ stepApplied' = FALSE
    /\ loggingEnabled' = FALSE
    /\ sampleCount' = 0
    /\ Opens(<<>>)
    /\ goSeen' = FALSE
    /\ stepFires' = 0
    /\ UNCHANGED <<stepStartTime, trueStart, file>>

\* printFileContents, printFileInfo: the file is opened FILE_READ and copied
\* or counted to Serial
ReadFile(ok) ==
    /\ Opens(<<Open("r", ok)>>)
    /\ UNCHANGED file

\* PrintFile with a fault seeded: logging is not paused
PrintFile_KeepsLogging ==
    /\ Read("p")
    /\ \E ok \in OpenResults : ReadFile(ok)
    /\ UNCHANGED <<stepStartTime, trueStart, sampleCount, loggingEnabled,
                   stepApplied, currentSetpoint, dacValue, goSeen, stepFires>>

\* case 'p': PRINT
PrintFile ==
    /\ Read("p")
    /\ loggingEnabled' = FALSE
    /\ \E ok \in OpenResults : ReadFile(ok)
    /\ UNCHANGED <<stepStartTime, trueStart, sampleCount, stepApplied, currentSetpoint,
                   dacValue, goSeen, stepFires>>

\* case 'c': CLEAR
Clear ==
    /\ Read("c")
    /\ \E ok \in OpenResults : clearDataFile(ok)
    /\ UNCHANGED <<stepStartTime, trueStart, loggingEnabled, stepApplied, currentSetpoint,
                   dacValue, goSeen, stepFires>>

\* case 'i': INFO
Info ==
    /\ Read("i")
    /\ \E ok \in OpenResults : ReadFile(ok)
    /\ UNCHANGED <<stepStartTime, trueStart, sampleCount, loggingEnabled, stepApplied,
                   currentSetpoint, dacValue, goSeen, stepFires>>

\* case 's': STOP/START logging
ToggleLogging ==
    /\ Read("s")
    /\ loggingEnabled' = ~loggingEnabled
    /\ Opens(<<>>)
    /\ UNCHANGED <<stepStartTime, trueStart, sampleCount, stepApplied, currentSetpoint,
                   dacValue, file, goSeen, stepFires>>

\* NoEffect with a fault seeded: the character pauses logging
NoEffect_Pauses ==
    /\ \E c \in {"v", "x"} : Read(c)
    /\ Opens(<<>>)
    /\ loggingEnabled' = FALSE
    /\ UNCHANGED <<stepStartTime, trueStart, sampleCount, stepApplied,
                   currentSetpoint, dacValue, file, goSeen, stepFires>>

\* case 'v' (and case 'h', '?'): Serial output only; any other character
\* ("x"): no case of the switch
NoEffect ==
    /\ \E c \in {"v", "x"} : Read(c)
    /\ Opens(<<>>)
    /\ UNCHANGED <<stepStartTime, trueStart, sampleCount, loggingEnabled, stepApplied,
                   currentSetpoint, dacValue, file, goSeen, stepFires>>

\* case '+'
Increase ==
    /\ Read("+")
    /\ LET v == IF currentSetpoint + V_STEP > V_MAX
                THEN V_MAX ELSE currentSetpoint + V_STEP
       IN setSetpointVoltage(v)
    /\ Opens(<<>>)
    /\ UNCHANGED <<stepStartTime, trueStart, sampleCount, loggingEnabled, stepApplied,
                   file, goSeen, stepFires>>

\* case '-'
Decrease ==
    /\ Read("-")
    /\ LET v == IF currentSetpoint - V_STEP < 0
                THEN 0 ELSE currentSetpoint - V_STEP
       IN setSetpointVoltage(v)
    /\ Opens(<<>>)
    /\ UNCHANGED <<stepStartTime, trueStart, sampleCount, loggingEnabled, stepApplied,
                   file, goSeen, stepFires>>

\* ------------------------------------------------- the rest of the loop
\* StepCheck with a fault seeded: the guard does not test stepApplied
StepCheck_Refires ==
    /\ pc = "step"
    /\ pc' = "sample"
    /\ IF loggingEnabled /\ USub(now, stepStartTime) >= INITIAL_WAIT_MS
       THEN applyStep /\ stepFires' = stepFires + 1
       ELSE UNCHANGED <<stepApplied, currentSetpoint, dacValue, stepFires>>
    /\ UNCHANGED <<now, elapsed, cmd, lastSampleTime, trueSample, stepStartTime,
                   trueStart, sampleCount, loggingEnabled, file, io, prev,
                   nCmds, nFaults, goSeen>>

\* StepCheck with a fault seeded: the wait must be exceeded, not reached
StepCheck_Late ==
    /\ pc = "step"
    /\ pc' = "sample"
    /\ IF loggingEnabled /\ ~stepApplied
          /\ USub(now, stepStartTime) > INITIAL_WAIT_MS
       THEN applyStep /\ stepFires' = stepFires + 1
       ELSE UNCHANGED <<stepApplied, currentSetpoint, dacValue, stepFires>>
    /\ UNCHANGED <<now, elapsed, cmd, lastSampleTime, trueSample, stepStartTime,
                   trueStart, sampleCount, loggingEnabled, file, io, prev,
                   nCmds, nFaults, goSeen>>

\* "Apply step after initial wait period"
StepCheck ==
    /\ pc = "step"
    /\ pc' = "sample"
    /\ IF loggingEnabled /\ ~stepApplied
          /\ USub(now, stepStartTime) >= INITIAL_WAIT_MS
       THEN applyStep /\ stepFires' = stepFires + 1
       ELSE UNCHANGED <<stepApplied, currentSetpoint, dacValue, stepFires>>
    /\ UNCHANGED <<now, elapsed, cmd, lastSampleTime, trueSample, stepStartTime,
                   trueStart, sampleCount, loggingEnabled, file, io, prev,
                   nCmds, nFaults, goSeen>>

\* Sample with a fault seeded: the interval is not tested
Sample_NoThrottle ==
    /\ pc = "sample"
    /\ pc' = "poll"
    /\ LET currentTime == now IN
       IF loggingEnabled
       THEN /\ lastSampleTime' = currentTime /\ trueSample' = elapsed
            /\ \E rawValue \in AdcValues, okR, okA \in OpenResults :
                 logData(USub(currentTime, stepStartTime), currentSetpoint,
                         adcToVoltage(rawValue), okR, okA)
            /\ sampleCount' = sampleCount + 1
            /\ Len(Records(file')) <= MaxRecords
       ELSE /\ Opens(<<>>)
            /\ UNCHANGED <<lastSampleTime, trueSample, sampleCount,
                           loggingEnabled, file>>
    /\ UNCHANGED <<now, elapsed, cmd, stepStartTime, trueStart, stepApplied,
                   currentSetpoint, dacValue, prev, nCmds, goSeen, stepFires>>

\* "Sample at configured interval"
Sample ==
    /\ pc = "sample"
    /\ pc' = "poll"
    /\ LET currentTime == now IN
       IF loggingEnabled /\ USub(currentTime, lastSampleTime) >= SAMPLING_INTERVAL_MS
       THEN /\ lastSampleTime' = currentTime /\ trueSample' = elapsed
            /\ \E rawValue \in AdcValues, okR, okA \in OpenResults :
                 logData(USub(currentTime, stepStartTime), currentSetpoint,
                         adcToVoltage(rawValue), okR, okA)
            /\ sampleCount' = sampleCount + 1
            /\ Len(Records(file')) <= MaxRecords
       ELSE /\ Opens(<<>>)
            /\ UNCHANGED <<lastSampleTime, trueSample, sampleCount, loggingEnabled, file>>
    /\ UNCHANGED <<now, elapsed, cmd, stepStartTime, trueStart, stepApplied, currentSetpoint,
                   dacValue, prev, nCmds, goSeen, stepFires>>

\* the millisecond counter advances
Tick ==
    /\ \E d \in Deltas :
         /\ elapsed + d <= MaxTime
         /\ now' = (now + d) % ULONG_MOD
         /\ elapsed' = elapsed + d
    /\ UNCHANGED <<pc, cmd, lastSampleTime, trueSample, stepStartTime,
                   trueStart, sampleCount, loggingEnabled, stepApplied,
                   currentSetpoint, dacValue, file, io, prev, nCmds, nFaults,
                   goSeen, stepFires>>

Next ==
    \/ NoCommand
    \/ Go
    \/ Reset
    \/ PrintFile
    \/ Clear
    \/ Info
    \/ ToggleLogging
    \/ NoEffect
    \/ Increase
    \/ Decrease
    \/ StepCheck
    \/ Sample
    \/ Tick

Spec == Init /\ [][Next]_vars

\* the loop keeps iterating and the clock keeps advancing: loop() is called
\* again by the Arduino core as soon as it returns, and millis() counts on
SpecLive ==
    /\ Init
    /\ [][Next]_vars
    /\ WF_vars(NoCommand)
    /\ WF_vars(StepCheck)
    /\ WF_vars(Sample)
    /\ WF_vars(Tick)

\* the device after '+' was read 32 times from boot (or not at all), the
\* data file header-only
InitManual ==
    /\ now = 0
    /\ pc = "poll"
    /\ cmd = "none"
    /\ lastSampleTime = 0
    /\ stepStartTime = 0
    /\ sampleCount = 0
    /\ loggingEnabled = FALSE
    /\ stepApplied = FALSE
    /\ currentSetpoint \in {0, V_MAX - V_STEP}
    /\ dacValue = DacOf(currentSetpoint)
    /\ file = HeaderOnly
    /\ io = <<>>
    /\ prev = "none"
    /\ nCmds = 0
    /\ nFaults = 0
    /\ goSeen = FALSE
    /\ stepFires = 0
    /\ elapsed = 0
    /\ trueStart = 0
    /\ trueSample = 0

SpecManual == InitManual /\ [][Next]_vars

\* milliseconds left on the counter before it wraps, in the state InitWrap
BeforeWrap == 2 * SAMPLING_INTERVAL_MS

\* the device left idle since boot until BeforeWrap ms before millis()
\* wraps to 0, the data file header-only; the stored times are the
\* initializers, given at boot
InitWrap ==
    /\ now = ULONG_MOD - BeforeWrap
    /\ pc = "poll"
    /\ cmd = "none"
    /\ lastSampleTime = 0
    /\ stepStartTime = 0
    /\ sampleCount = 0
    /\ loggingEnabled = FALSE
    /\ stepApplied = FALSE
    /\ currentSetpoint = 0
    /\ dacValue = 0
    /\ file = HeaderOnly
    /\ io = <<>>
    /\ prev = "none"
    /\ nCmds = 0
    /\ nFaults = 0
    /\ goSeen = FALSE
    /\ stepFires = 0
    /\ elapsed = 0
    /\ trueStart = 0 - now
    /\ trueSample = 0 - now

SpecWrap == InitWrap /\ [][Next]_vars

\* ------------------------------------------------------------ the claims
\* this step reads character c from Serial and runs its case of the switch
ReadStep(c) == nCmds' = nCmds + 1 /\ cmd' = c

\* the character read last
LastRead == IF cmd # "none" THEN cmd ELSE prev

\* this step is a sampling block that called logData
LogAttempt == pc = "sample" /\ pc' = "poll" /\ io' # <<>>

\* the last sampling block called logData and the size check refused
Refused == pc = "poll" /\ io = <<Open("r", TRUE)>>

\* C1 as stated: in every reachable state stepApplied implies
\* currentSetpoint = SETPOINT_VOLTAGE. The manual '+' and '-' commands are
\* not gated by stepApplied and move the output after the step.
C1_PinnedAlways == stepApplied => currentSetpoint = SETPOINT_VOLTAGE

\* C1 amended: the step sets currentSetpoint to SETPOINT_VOLTAGE, and while
\* stepApplied stays true every step other than a '+' or '-' command leaves
\* currentSetpoint unchanged.
C1_PinnedUntilAdjust ==
    [][ /\ (~stepApplied /\ stepApplied') => currentSetpoint' = SETPOINT_VOLTAGE
        /\ (stepApplied /\ stepApplied' /\ ~ReadStep("+") /\ ~ReadStep("-"))
              => currentSetpoint' = currentSetpoint ]_vars

\* the step fired and a later command (not '+', '-' or reset) left the output
\* at the target
C1_Witness ==
    /\ stepApplied /\ currentSetpoint = SETPOINT_VOLTAGE
    /\ pc = "step" /\ cmd \in {"g", "s", "p", "c", "i", "v", "x"} /\ prev = "g"

\* C2 as stated: a go read after an earlier go with no reset in between
\* leaves loggingEnabled, stepApplied, stepStartTime, sampleCount,
\* currentSetpoint and the log file unchanged.
C2_SecondGoRejected ==
    [][(ReadStep("g") /\ goSeen) => UNCHANGED runState]_vars

\* C2 amended: a go read while stepApplied is true is rejected and leaves
\* loggingEnabled, stepApplied, stepStartTime, sampleCount, currentSetpoint
\* and the log file unchanged.
C2_GoAfterStepRejected ==
    [][(ReadStep("g") /\ stepApplied) => UNCHANGED runState /\ io' = <<>>]_vars

\* a second go was just dispatched after the step of the first go fired
C2_Witness ==
    /\ pc = "step" /\ cmd = "g" /\ prev = "g" /\ stepApplied
    /\ stepFires = 1 /\ now > stepStartTime

\* C3: a sampling block whose logData call wrote nothing (the size check
\* refused, or the FILE_APPEND open failed) leaves sampleCount as it was and
\* loggingEnabled false; sampleCount grows only when a record was written.
\* The code increments sampleCount after every logData call and clears
\* loggingEnabled only when the size check refuses.
C3_FailedAppendNotCounted ==
    [][ /\ (LogAttempt /\ file' = file)
              => (sampleCount' = sampleCount /\ ~loggingEnabled')
        /\ (pc = "sample" /\ sampleCount' # sampleCount)
              => file' # file ]_vars

\* C4: a logData call made while the file holds MAX_FILE_SIZE bytes or more
\* writes nothing, so a file of that size changes only by being truncated to
\* the header line. The code skips the size check
\* when the FILE_READ open fails.
C4_FrozenAtCapacity ==
    [][ FileSize(file) >= MAX_FILE_SIZE =>
          /\ LogAttempt => file' = file
          /\ file' # file => file' = HeaderOnly ]_vars

\* C5 as stated: once the size check has refused an append, loggingEnabled
\* stays false for as long as the file is not cleared.
C5_OffUntilCleared ==
    [][(Refused /\ file' = file) => ~loggingEnabled']_vars

\* C5 amended: a sampling block whose size check finds the file at
\* MAX_FILE_SIZE or more writes nothing and clears loggingEnabled, and
\* loggingEnabled becomes true again only by a toggle-logging or a go
\* command (which need not clear the file).
C5_OffUntilToggleOrGo ==
    [][ /\ (LogAttempt /\ FileSize(file) >= MAX_FILE_SIZE /\ io'[1] = Open("r", TRUE))
              => (file' = file /\ ~loggingEnabled')
        /\ (~loggingEnabled /\ loggingEnabled')
              => (ReadStep("s") \/ ReadStep("g")) ]_vars

\* after a refusal logging was toggled back on and the next append was
\* refused again
C5_Witness ==
    /\ Refused /\ cmd = "s" /\ prev = "s" /\ ~loggingEnabled
    /\ FileSize(file) >= MAX_FILE_SIZE

\* the run was started from boot by a go, and no other character was read
OnlyGo == nCmds = 1 /\ LastRead = "g"

\* C6: in a run started from boot by a go with no other command, every record
\* of the file with relativeTimestamp < INITIAL_WAIT_MS has setpoint 0 and
\* every record with relativeTimestamp >= INITIAL_WAIT_MS has setpoint
\* SETPOINT_VOLTAGE. The step check and the sampling block read millis()
\* separately, so the clock can pass INITIAL_WAIT_MS between the two reads.
C6_RecordsSplitAtWait ==
    OnlyGo =>
      \A i \in DOMAIN file :
        file[i].kind = "rec" =>
          IF file[i].t < INITIAL_WAIT_MS
          THEN file[i].sp = 0
          ELSE file[i].sp = SETPOINT_VOLTAGE

\* C7: applyStep fires at most once between two resets (or boot and the first
\* reset), and stepApplied goes from true to false only by a reset command.
C7_StepOncePerRun ==
    [][ /\ stepFires' <= 1
        /\ (stepApplied /\ ~stepApplied') => ReadStep("r") ]_vars

\* the step fired, a record with the target setpoint was logged, and a later
\* step check ran with logging still enabled
C7_Witness ==
    /\ stepFires = 1 /\ stepApplied /\ loggingEnabled /\ pc = "sample"
    /\ \E i \in DOMAIN file :
         file[i].kind = "rec" /\ file[i].sp = SETPOINT_VOLTAGE

\* C8: a go read while stepApplied is false and whose FILE_WRITE open
\* succeeds leaves the file header-only, sampleCount 0, loggingEnabled true
\* and stepStartTime at the clock value, stepApplied and currentSetpoint
\* unchanged.
C8_GoStartsRun ==
    [][(ReadStep("g") /\ ~stepApplied /\ io' # <<Open("w", FALSE)>>) =>
          /\ io' = <<Open("w", TRUE)>>
          /\ file' = HeaderOnly
          /\ sampleCount' = 0
          /\ loggingEnabled'
          /\ stepStartTime' = now
          /\ UNCHANGED <<stepApplied, currentSetpoint>> ]_vars

\* a go was just accepted, later than boot, over a file that held a record
C8_Witness ==
    /\ pc = "step" /\ cmd = "g" /\ io = <<Open("w", TRUE)>>
    /\ file = HeaderOnly /\ sampleCount = 0 /\ loggingEnabled
    /\ stepStartTime = now /\ now > 0 /\ lastSampleTime > 0

\* C9: a reset yields currentSetpoint 0, stepApplied false, loggingEnabled
\* false and sampleCount 0 and leaves the file and stepStartTime unchanged;
\* a go read next whose FILE_WRITE open succeeds is accepted and leaves the
\* file header-only with logging enabled.
C9_ResetThenGo ==
    [][ /\ ReadStep("r") =>
              /\ currentSetpoint' = 0 /\ ~stepApplied' /\ ~loggingEnabled'
              /\ sampleCount' = 0
              /\ UNCHANGED <<file, stepStartTime>>
        /\ (ReadStep("g") /\ LastRead = "r" /\ io' # <<Open("w", FALSE)>>) =>
              /\ io' = <<Open("w", TRUE)>>
              /\ file' = HeaderOnly /\ loggingEnabled' ]_vars

\* a go was just accepted as the command after a reset
C9_Witness ==
    /\ pc = "step" /\ cmd = "g" /\ prev = "r" /\ io = <<Open("w", TRUE)>>
    /\ file = HeaderOnly /\ loggingEnabled /\ ~stepApplied

\* the file and the counter as a successful clear leaves them
Cleared == file = HeaderOnly /\ sampleCount = 0

\* C10: a clear whose FILE_WRITE open succeeds leaves the file header-only
\* and sampleCount 0 and the rest of the run state unchanged, and a second
\* such clear, with nothing appended in between, changes nothing.
C10_ClearIdempotent ==
    [][(ReadStep("c") /\ io' = <<Open("w", TRUE)>>) =>
          /\ Cleared'
          /\ UNCHANGED <<loggingEnabled, stepApplied, stepStartTime,
                         currentSetpoint, lastSampleTime>>
          /\ Cleared => UNCHANGED runState ]_vars

\* two clears in a row, both succeeded
C10_Witness ==
    /\ pc = "step" /\ cmd = "c" /\ prev = "c" /\ nFaults = 0
    /\ io = <<Open("w", TRUE)>> /\ Cleared

\* C11: a clear whose FILE_WRITE open fails changes nothing: the file,
\* sampleCount, loggingEnabled, stepApplied, stepStartTime and
\* currentSetpoint are as before the command.
C11_FailedClearNoOp ==
    [][(ReadStep("c") /\ io' = <<Open("w", FALSE)>>) =>
          UNCHANGED runState]_vars

\* a clear just failed over a file that holds a record, logging enabled
C11_Witness ==
    /\ pc = "step" /\ cmd = "c" /\ io = <<Open("w", FALSE)>>
    /\ loggingEnabled /\ sampleCount > 0 /\ Records(file) # <<>>

\* C12: a loop iteration takes at most one character from the serial input
\* (a character is taken only by the poll that opens an iteration), and a
\* character that is no command is taken and leaves loggingEnabled,
\* stepApplied, stepStartTime, sampleCount, currentSetpoint and the file
\* unchanged.
C12_OneCharPerIteration ==
    [][ /\ nCmds' # nCmds =>
              (nCmds' = nCmds + 1 /\ pc = "poll" /\ pc' = "step")
        /\ ReadStep("x") => UNCHANGED runState ]_vars

\* an unrecognized character was just read while a run was logging
C12_Witness ==
    /\ pc = "step" /\ cmd = "x" /\ prev = "g"
    /\ loggingEnabled /\ sampleCount > 0 /\ Records(file) # <<>>

\* C13: currentSetpoint always lies in [0 V, 3.3 V] and is the voltage the
\* last dacWrite was computed from; a '+' raises it by 0.1 V, or to 3.3 V
\* where the sum would exceed 3.3 V, and a '-' lowers it by 0.1 V, or to
\* 0 V where the difference would be negative.
C13_SetpointInRange ==
    /\ [](currentSetpoint \in 0..V_MAX /\ dacValue = DacOf(currentSetpoint))
    /\ [][ /\ ReadStep("+") =>
                 currentSetpoint' = IF currentSetpoint + V_STEP > V_MAX
                                    THEN V_MAX
                                    ELSE currentSetpoint + V_STEP
           /\ ReadStep("-") =>
                 currentSetpoint' = IF currentSetpoint - V_STEP < 0
                                    THEN 0
                                    ELSE currentSetpoint - V_STEP ]_vars

\* '+' was read twice from 3.2 V: the second one was clamped at 3.3 V
C13_Witness ==
    /\ pc = "step" /\ cmd = "+" /\ prev = "+"
    /\ currentSetpoint = V_MAX /\ dacValue = DAC_MAX

\* C14: applyStep is called only when a go was read since boot or the last
\* reset and at least INITIAL_WAIT_MS have passed since stepStartTime.
C14_StepAfterGo ==
    [][(stepFires' = stepFires + 1) =>
          (goSeen /\ USub(now, stepStartTime) >= INITIAL_WAIT_MS)]_vars

\* C15: a go read while stepApplied is false leaves loggingEnabled true
\* only over a header-only file with sampleCount 0, whatever the result of
\* its FILE_WRITE open.
C15_GoOnClearedFile ==
    [][(ReadStep("g") /\ ~stepApplied /\ loggingEnabled') => Cleared']_vars

\* the file holds the header and records of this boot only
OwnRecords == \A i \in DOMAIN file : file[i].kind = IF i = 1 THEN "hdr" ELSE "rec"

\* C16: while no open has failed and the file holds no data of an earlier
\* boot, each record's relativeTimestamp is at least SAMPLING_INTERVAL_MS
\* above that of the record before it.
C16_RecordsSpaced ==
    (nFaults = 0 /\ OwnRecords) =>
        \A i \in 2..(Len(file) - 1) :
            file[i + 1].t >= file[i].t + SAMPLING_INTERVAL_MS

\* two records lie either side of a command, every open so far succeeded
C16_Witness ==
    /\ nFaults = 0 /\ OwnRecords /\ Len(file) >= 3 /\ nCmds = MaxCmds
    /\ file[Len(file)].sp # file[2].sp

\* the longest record line logData can write
MaxRecordBytes == ULONG_DIGITS + 1 + 6 + 1 + 6 + 1

\* C17: the file is always smaller than MAX_FILE_SIZE plus the longest
\* record line.
C17_OvershootBounded == FileSize(file) < MAX_FILE_SIZE + MaxRecordBytes

\* C19: a print sets loggingEnabled false and leaves the file, stepApplied,
\* sampleCount, stepStartTime and currentSetpoint unchanged; the rest of its
\* loop iteration changes none of them and appends no record; and
\* loggingEnabled turns true again only by a toggle-logging or by a go read
\* while stepApplied is false.
C19_PrintPauses ==
    [][ /\ ReadStep("p") =>
              /\ ~loggingEnabled'
              /\ UNCHANGED <<file, stepApplied, sampleCount, stepStartTime,
                             currentSetpoint>>
        /\ (cmd = "p" /\ pc # "poll") => UNCHANGED runState
        /\ (~loggingEnabled /\ loggingEnabled') =>
              (ReadStep("s") \/ (ReadStep("g") /\ ~stepApplied)) ]_vars

\* the iteration of a print has ended: a sample was due in it and none was
\* taken, no record was appended
C19_Witness ==
    /\ pc = "poll" /\ cmd = "p" /\ prev = "g" /\ ~loggingEnabled
    /\ USub(now, lastSampleTime) >= SAMPLING_INTERVAL_MS
    /\ Len(file) = 2 /\ sampleCount = 1

\* a go was just accepted and its clear succeeded, no command can follow it,
\* and the clock can still reach the end of the wait
LastGoAccepted ==
    /\ pc = "step" /\ cmd = "g" /\ io = <<Open("w", TRUE)>>
    /\ loggingEnabled /\ ~stepApplied
    /\ nCmds = MaxCmds
    /\ elapsed + INITIAL_WAIT_MS <= MaxTime

Stepped == stepApplied /\ currentSetpoint = SETPOINT_VOLTAGE

\* C18: with the loop iterating and the clock advancing, an accepted go
\* that no command follows leads to stepApplied true with currentSetpoint
\* at SETPOINT_VOLTAGE; and the step check that finds loggingEnabled,
\* stepApplied false and millis() - stepStartTime >= INITIAL_WAIT_MS is
\* the one that applies the step, no earlier one does.
C18_StepEventually ==
    /\ LastGoAccepted ~> Stepped
    /\ [][ /\ (pc = "step" /\ pc' = "sample" /\ loggingEnabled /\ ~stepApplied
                 /\ USub(now, stepStartTime) >= INITIAL_WAIT_MS) => Stepped'
           /\ (~stepApplied /\ stepApplied') =>
                 USub(now, stepStartTime) >= INITIAL_WAIT_MS ]_vars

\* the step was applied INITIAL_WAIT_MS after the last command, a go, with
\* samples logged meanwhile
C18_Witness ==
    /\ Stepped /\ stepFires = 1 /\ prev = "g" /\ cmd = "none"
    /\ nCmds = MaxCmds /\ loggingEnabled
    /\ elapsed = trueStart + INITIAL_WAIT_MS
    /\ Len(Records(file)) >= 2

\* the step check or the sampling block runs
StepChecked == pc = "step" /\ pc' = "sample"
SampleChecked == pc = "sample" /\ pc' = "poll"

\* C20: with the counter wrapping at ULONG_MOD and the true time since the
\* stored time below ULONG_MOD, the step check applies the step exactly
\* when logging is enabled, the step is not applied and the true time
\* since stepStartTime was set is at least INITIAL_WAIT_MS, and the
\* sampling block takes a sample exactly when logging is enabled and the
\* true time since lastSampleTime was set is at least SAMPLING_INTERVAL_MS.
C20_WrapSafe ==
    [][ /\ (StepChecked /\ elapsed - trueStart < ULONG_MOD) =>
              (stepFires' = stepFires + 1 <=>
                  /\ loggingEnabled /\ ~stepApplied
                  /\ elapsed - trueStart >= INITIAL_WAIT_MS)
        /\ (SampleChecked /\ elapsed - trueSample < ULONG_MOD) =>
              (sampleCount' = sampleCount + 1 <=>
                  /\ loggingEnabled
                  /\ elapsed - trueSample >= SAMPLING_INTERVAL_MS) ]_vars

\* the step was applied and a sample then taken, both after the counter
\* wrapped past a stepStartTime and a lastSampleTime stored before the wrap
C20_Witness ==
    /\ pc = "poll" /\ stepFires = 1 /\ stepApplied /\ goSeen
    /\ now < stepStartTime /\ elapsed = trueStart + INITIAL_WAIT_MS
    /\ lastSampleTime = now /\ trueSample = elapsed
    /\ \E i \in DOMAIN file :
         /\ file[i].kind = "rec" /\ file[i].t = INITIAL_WAIT_MS
         /\ i > 2 /\ file[i - 1].t < BeforeWrap

====
